---- MODULE Spec2Model ----
(***************************************************************************)
(* Fundraiser contract of src/src/main.rs (Casper smart contract).         *)
(*                                                                         *)
(* The contract's state is the host-side state it owns: its named keys,    *)
(* the purses and the dictionaries created for it.  Every entry point is   *)
(* one host call: it runs on a tracking copy of the state, and the host    *)
(* commits the copy when the entry point returns and drops it when the     *)
(* entry point reverts (runtime::revert / unwrap_or_revert).               *)
(***************************************************************************)
EXTENDS Integers, Sequences, FiniteSets, TLC

(* ---- bounds of the model ---- *)
MaxDonations == 3
MaxBalance == 4
MaxAmount == 2
MaxAddr == 3

(* ---- constants of the contract (main.rs:25-33) ---- *)
ENTRY_POINT_INIT == "init"
ENTRY_POINT_DONATE == "donate"
ENTRY_POINT_GET_DONATION_COUNT == "get_donation_count"
ENTRY_POINT_GET_FUNDS_RAISED == "get_funds_raised"
LEDGER == "ledger"
FUNDRAISING_PURSE == "fundraising_purse"

(* FundRaisingError variants used by the entry points, and the ApiError    *)
(* values of the host calls the entry points unwrap.                       *)
InvalidKeyVariant == "InvalidKeyVariant"
MissingFundRaisingPurseURef == "MissingFundRaisingPurseURef"
MissingLedgerSeedURef == "MissingLedgerSeedURef"
InvalidArgument == "ApiError::InvalidArgument"
OptionNone == "ApiError::None"
InvalidAccessRights == "ApiError::InvalidAccessRights"
NoError == "none"

(* ---- casper_types values ---- *)
(* AccessRights bits of a URef. *)
READ_ADD_WRITE == {"READ", "ADD", "WRITE"}
ADD == {"ADD"}

(* Account hashes are byte strings; two donors whose hashes share a byte.  *)
AccountHashes == {<<1, 10>>, <<1, 171>>}

(* Key::Account(hash) and one other Key variant, Key::Hash(hash). *)
KeyAccount(h) == [tag |-> "Account", hash |-> h]
KeyHash(h) == [tag |-> "Hash", hash |-> h]
Keys == {KeyAccount(h) : h \in AccountHashes} \cup {KeyHash(h) : h \in AccountHashes}
NoKey == [tag |-> "None", hash |-> <<>>]

NoURef == [addr |-> 0, rights |-> {}]
MkURef(a, r) == [addr |-> a, rights |-> r]

HexDigit == <<"0", "1", "2", "3", "4", "5", "6", "7", "8", "9", "a", "b", "c", "d", "e", "f">>

(* Mutant of to_string: only the first byte is formatted. *)
to_string_first_byte(h) ==
  IF h = <<>> THEN ""
  ELSE HexDigit[(Head(h) \div 16) + 1] \o HexDigit[(Head(h) % 16) + 1]

(* AccountHash::to_string: lower-case base16 of the bytes, two digits each. *)
RECURSIVE to_string(_)
to_string(h) ==
  IF h = <<>> THEN ""
  ELSE HexDigit[(Head(h) \div 16) + 1] \o HexDigit[(Head(h) % 16) + 1] \o to_string(Tail(h))

(* Mutant of into_add: the access rights are kept. *)
into_add_keeps_rights(u) == MkURef(u.addr, u.rights)

(* URef::into_add: the same address with ADD access only. *)
into_add(u) == MkURef(u.addr, ADD)

is_readable(u) == "READ" \in u.rights
is_writeable(u) == "WRITE" \in u.rights
is_addable(u) == "ADD" \in u.rights

VARIABLES named_keys, balances, dictionaries, next_addr, ret,
          n_donated, deposited, funds_seen, holders, inflight, raced

vars == <<named_keys, balances, dictionaries, next_addr, ret,
          n_donated, deposited, funds_seen, holders, inflight, raced>>

(* The contract-owned host state as one value, the tracking copy a call runs on. *)
St == [named_keys |-> named_keys, balances |-> balances,
       dictionaries |-> dictionaries, next_addr |-> next_addr]

(* ---- host calls of casper_contract::contract_api used by the contract ---- *)

(* runtime::has_key / runtime::get_key / runtime::put_key on the named keys. *)
has_key(s, name) == name \in DOMAIN s.named_keys

put_key(s, name, uref) ==
  [s EXCEPT !.named_keys =
     [n \in (DOMAIN s.named_keys) \cup {name} |-> IF n = name THEN uref ELSE s.named_keys[n]]]

(* system::create_purse: a fresh purse of balance 0, returned with full access. *)
create_purse(s) ==
  [uref |-> MkURef(s.next_addr, READ_ADD_WRITE),
   st |-> [s EXCEPT !.balances = [a \in (DOMAIN s.balances) \cup {s.next_addr} |->
                                     IF a = s.next_addr THEN 0 ELSE s.balances[a]],
                    !.next_addr = s.next_addr + 1]]

(* Mutant of new_dictionary: the name is not checked against the named keys. *)
new_dictionary_unchecked(s, name) ==
  [ok |-> TRUE, err |-> NoError,
   st |-> put_key([s EXCEPT !.dictionaries =
                       [a \in (DOMAIN s.dictionaries) \cup {s.next_addr} |->
                          IF a = s.next_addr THEN <<>> ELSE s.dictionaries[a]],
                     !.next_addr = s.next_addr + 1],
                  name, MkURef(s.next_addr, READ_ADD_WRITE))]

(* storage::new_dictionary(name): Err(InvalidArgument) when the name is already *)
(* a named key; otherwise a fresh empty dictionary whose seed URef is put under *)
(* the name.                                                                    *)
new_dictionary(s, name) ==
  IF has_key(s, name)
  THEN [ok |-> FALSE, err |-> InvalidArgument, st |-> s]
  ELSE [ok |-> TRUE, err |-> NoError,
        st |-> put_key([s EXCEPT !.dictionaries =
                            [a \in (DOMAIN s.dictionaries) \cup {s.next_addr} |->
                               IF a = s.next_addr THEN <<>> ELSE s.dictionaries[a]],
                          !.next_addr = s.next_addr + 1],
                       name, MkURef(s.next_addr, READ_ADD_WRITE))]

(* storage::dictionary_get::<u64>(seed, item_key): Some(count) or None. *)
dictionary_get(s, seed, k) ==
  IF k \in DOMAIN s.dictionaries[seed.addr]
  THEN [some |-> TRUE, val |-> s.dictionaries[seed.addr][k]]
  ELSE [some |-> FALSE, val |-> 0]

(* storage::dictionary_put(seed, item_key, value). *)
dictionary_put(s, seed, k, v) ==
  [s EXCEPT !.dictionaries[seed.addr] =
     [j \in (DOMAIN s.dictionaries[seed.addr]) \cup {k} |->
        IF j = k THEN v ELSE s.dictionaries[seed.addr][j]]]

(* system::get_purse_balance(purse): Some(balance) of an existing purse. *)
get_purse_balance(s, purse) ==
  IF purse.addr \in DOMAIN s.balances
  THEN [some |-> TRUE, val |-> s.balances[purse.addr]]
  ELSE [some |-> FALSE, val |-> 0]

(* ---- outcome of an entry point on its tracking copy ---- *)
(* runtime::ret(value) / normal return. *)
Ok(s, n, c) == [ok |-> TRUE, err |-> NoError, num |-> n, cap |-> c, st |-> s]
(* runtime::revert(error), also through unwrap_or_revert[_with]. *)
Revert(s, e) == [ok |-> FALSE, err |-> e, num |-> -1, cap |-> NoURef, st |-> s]

(* Mutant of Commit: the effects of a reverted call are kept. *)
CommitAlways(s, r) == r.st

(* The host ends the call: the effects of a call that returned are committed, *)
(* the effects of a call that reverted are dropped.                           *)

Commit(s, r) == IF r.ok THEN r.st ELSE s

(* ---- the contract ---- *)

(* init (main.rs:40-45). *)
init(s) ==
  LET p == create_purse(s)
      s1 == put_key(p.st, FUNDRAISING_PURSE, p.uref)
      d == new_dictionary(s1, LEDGER)
  IN IF d.ok THEN Ok(d.st, -1, NoURef) ELSE Revert(d.st, d.err)

(* update_ledger_record(dictionary_item_key): the ledger increment.  Looks up  *)
(* the ledger seed, reads the current count (absent = 0) and stores count + 1. *)
(* The count is a u64; the model keeps it below MaxDonations, far from 2^64.   *)
update_ledger_record(s, k) ==
  IF ~has_key(s, LEDGER) THEN Revert(s, MissingLedgerSeedURef)
  ELSE LET seed == s.named_keys[LEDGER]
           cur == dictionary_get(s, seed, k)
       IN Ok(dictionary_put(s, seed, k, IF cur.some THEN cur.val + 1 ELSE 1), -1, NoURef)

(* Mutants of donate: no ledger record; no check of the key variant; the purse *)
(* returned with the access it is stored with.                                 *)
donate_unrecorded(s, key) ==
  IF key.tag = "Account"
  THEN IF ~has_key(s, FUNDRAISING_PURSE) THEN Revert(s, MissingFundRaisingPurseURef)
       ELSE Ok(s, -1, into_add(s.named_keys[FUNDRAISING_PURSE]))
  ELSE Revert(s, InvalidKeyVariant)

donate_any_key(s, key) ==
  LET u == update_ledger_record(s, to_string(key.hash))
  IN IF ~u.ok THEN u
     ELSE IF ~has_key(u.st, FUNDRAISING_PURSE) THEN Revert(u.st, MissingFundRaisingPurseURef)
     ELSE Ok(u.st, -1, into_add(u.st.named_keys[FUNDRAISING_PURSE]))

donate_full_access(s, key) ==
  IF key.tag = "Account"
  THEN LET u == update_ledger_record(s, to_string(key.hash))
       IN IF ~u.ok THEN u
          ELSE IF ~has_key(u.st, FUNDRAISING_PURSE) THEN Revert(u.st, MissingFundRaisingPurseURef)
          ELSE Ok(u.st, -1, u.st.named_keys[FUNDRAISING_PURSE])
  ELSE Revert(s, InvalidKeyVariant)

(* donate (main.rs:50-66). *)
donate(s, key) ==
  IF key.tag = "Account"
  THEN LET u == update_ledger_record(s, to_string(key.hash))
       IN IF ~u.ok THEN u
          ELSE IF ~has_key(u.st, FUNDRAISING_PURSE) THEN Revert(u.st, MissingFundRaisingPurseURef)
          ELSE Ok(u.st, -1, into_add(u.st.named_keys[FUNDRAISING_PURSE]))
  ELSE Revert(s, InvalidKeyVariant)

(* Mutant of get_donation_count: an absent entry reads as 1. *)
get_donation_count_default_one(s, key) ==
  IF key.tag = "Account"
  THEN IF ~has_key(s, LEDGER) THEN Revert(s, MissingLedgerSeedURef)
       ELSE LET c == dictionary_get(s, s.named_keys[LEDGER], to_string(key.hash))
            IN Ok(s, IF c.some THEN c.val ELSE 1, NoURef)
  ELSE Revert(s, InvalidKeyVariant)

(* Mutant of get_donation_count: an absent entry is stored as 0 when read. *)
get_donation_count_materializes(s, key) ==
  IF key.tag = "Account"
  THEN IF ~has_key(s, LEDGER) THEN Revert(s, MissingLedgerSeedURef)
       ELSE LET c == dictionary_get(s, s.named_keys[LEDGER], to_string(key.hash))
            IN IF c.some THEN Ok(s, c.val, NoURef)
               ELSE Ok(dictionary_put(s, s.named_keys[LEDGER], to_string(key.hash), 0), 0, NoURef)
  ELSE Revert(s, InvalidKeyVariant)

(* Mutant of get_donation_count: the ledger is looked up before the key variant *)
(* is matched.                                                                  *)
get_donation_count_lookup_first(s, key) ==
  IF ~has_key(s, LEDGER) THEN Revert(s, MissingLedgerSeedURef)
  ELSE IF key.tag = "Account"
  THEN LET c == dictionary_get(s, s.named_keys[LEDGER], to_string(key.hash))
       IN Ok(s, IF c.some THEN c.val ELSE 0, NoURef)
  ELSE Revert(s, InvalidKeyVariant)

(* get_donation_count (main.rs:70-89). *)
get_donation_count(s, key) ==
  IF key.tag = "Account"
  THEN IF ~has_key(s, LEDGER) THEN Revert(s, MissingLedgerSeedURef)
       ELSE LET c == dictionary_get(s, s.named_keys[LEDGER], to_string(key.hash))
            IN Ok(s, IF c.some THEN c.val ELSE 0, NoURef)
  ELSE Revert(s, InvalidKeyVariant)

(* Mutant of get_funds_raised: a missing purse reads as balance 0. *)
get_funds_raised_or_zero(s) ==
  IF ~has_key(s, FUNDRAISING_PURSE) THEN Ok(s, 0, NoURef)
  ELSE LET b == get_purse_balance(s, s.named_keys[FUNDRAISING_PURSE])
       IN IF b.some THEN Ok(s, b.val, NoURef) ELSE Revert(s, OptionNone)

(* get_funds_raised (main.rs:93-101). *)
get_funds_raised(s) ==
  IF ~has_key(s, FUNDRAISING_PURSE) THEN Revert(s, MissingFundRaisingPurseURef)
  ELSE LET b == get_purse_balance(s, s.named_keys[FUNDRAISING_PURSE])
       IN IF b.some THEN Ok(s, b.val, NoURef) ELSE Revert(s, OptionNone)

(* ---- what a holder of a URef to the purse can do with it (main.rs:61-63) ---- *)
(* Transfer into the purse: the target must be addable. *)
deposit(s, cap, amt) ==
  IF is_addable(cap) /\ cap.addr \in DOMAIN s.balances
  THEN Ok([s EXCEPT !.balances[cap.addr] = @ + amt], -1, NoURef)
  ELSE Revert(s, InvalidAccessRights)

(* Transfer out of the purse: the source must be writeable and hold the amount. *)
withdraw(s, cap, amt) ==
  IF is_writeable(cap) /\ cap.addr \in DOMAIN s.balances /\ s.balances[cap.addr] >= amt
  THEN Ok([s EXCEPT !.balances[cap.addr] = @ - amt], -1, NoURef)
  ELSE Revert(s, InvalidAccessRights)

(* Balance read through the URef: it must be readable. *)
read_balance(s, cap) ==
  IF is_readable(cap) /\ cap.addr \in DOMAIN s.balances
  THEN Ok(s, s.balances[cap.addr], NoURef)
  ELSE Revert(s, InvalidAccessRights)

(* ---- the state machine ---- *)
(* Two donate calls that the host may run without serializing them, and where *)
(* each of them stands: idle, count read, count written, returned.            *)
Calls == {"a", "b"}
Idle == [pc |-> "idle", key |-> NoKey, cur |-> 0]

Zero == [h \in AccountHashes |-> 0]

Result(op, key, amt, r, s) ==
  [op |-> op, key |-> key, amt |-> amt, ok |-> r.ok, err |-> r.err,
   num |-> r.num, cap |-> r.cap, dirty |-> (~r.ok /\ r.st # s)]

NoResult ==
  [op |-> "none", key |-> NoKey, amt |-> 0, ok |-> TRUE, err |-> NoError,
   num |-> -1, cap |-> NoURef, dirty |-> FALSE]

(* The contract as storage::new_contract leaves it (main.rs:152-157): no named *)
(* keys, no purse, no dictionary.                                              *)
Init ==
  /\ named_keys = <<>>
  /\ balances = <<>>
  /\ dictionaries = <<>>
  /\ next_addr = 1
  /\ ret = NoResult
  /\ n_donated = Zero
  /\ deposited = 0
  /\ funds_seen = {}
  /\ holders = {}
  /\ inflight = [p \in Calls |-> Idle]
  /\ raced = FALSE

Store(c) ==
  /\ named_keys' = c.named_keys
  /\ balances' = c.balances
  /\ dictionaries' = c.dictionaries
  /\ next_addr' = c.next_addr

(* A call of init: by the installer (main.rs:162) or by anyone later. *)
CallInit ==
  /\ next_addr <= MaxAddr
  /\ LET r == init(St)
     IN /\ Store(Commit(St, r))
        /\ ret' = Result(ENTRY_POINT_INIT, NoKey, 0, r, St)
        /\ n_donated' = IF r.ok THEN Zero ELSE n_donated
        /\ UNCHANGED <<deposited, funds_seen, holders, inflight, raced>>

CallDonate ==
  \E key \in Keys :
    /\ key.tag = "Account" => n_donated[key.hash] < MaxDonations
    /\ LET r == donate(St, key)
       IN /\ Store(Commit(St, r))
          /\ ret' = Result(ENTRY_POINT_DONATE, key, 0, r, St)
          /\ n_donated' = IF r.ok THEN [n_donated EXCEPT ![key.hash] = @ + 1] ELSE n_donated
          /\ holders' = IF r.ok THEN holders \cup {r.cap} ELSE holders
          /\ UNCHANGED <<deposited, funds_seen, inflight, raced>>

CallGetDonationCount ==
  \E key \in Keys :
    LET r == get_donation_count(St, key)
    IN /\ Store(Commit(St, r))
       /\ ret' = Result(ENTRY_POINT_GET_DONATION_COUNT, key, 0, r, St)
       /\ UNCHANGED <<n_donated, deposited, funds_seen, holders, inflight, raced>>

CallGetFundsRaised ==
  LET r == get_funds_raised(St)
  IN /\ Store(Commit(St, r))
     /\ ret' = Result(ENTRY_POINT_GET_FUNDS_RAISED, NoKey, 0, r, St)
     /\ funds_seen' = IF r.ok THEN funds_seen \cup {r.num} ELSE funds_seen
     /\ UNCHANGED <<n_donated, deposited, holders, inflight, raced>>

(* A holder of a capability returned by donate uses it. *)
Deposit ==
  \E cap \in holders, amt \in 1..MaxAmount :
    /\ balances[cap.addr] + amt <= MaxBalance
    /\ LET r == deposit(St, cap, amt)
       IN /\ Store(Commit(St, r))
          /\ ret' = Result("deposit", NoKey, amt, r, St)
          /\ deposited' = IF r.ok THEN deposited + amt ELSE deposited
          /\ UNCHANGED <<n_donated, funds_seen, holders, inflight, raced>>

Withdraw ==
  \E cap \in holders, amt \in 1..MaxAmount :
    LET r == withdraw(St, cap, amt)
    IN /\ Store(Commit(St, r))
       /\ ret' = Result("withdraw", NoKey, amt, r, St)
       /\ UNCHANGED <<n_donated, deposited, funds_seen, holders, inflight, raced>>

ReadBalance ==
  \E cap \in holders :
    LET r == read_balance(St, cap)
    IN /\ Store(Commit(St, r))
       /\ ret' = Result("read_balance", NoKey, 0, r, St)
       /\ UNCHANGED <<n_donated, deposited, funds_seen, holders, inflight, raced>>

Next ==
  \/ CallInit
  \/ CallDonate
  \/ CallGetDonationCount
  \/ CallGetFundsRaised
  \/ Deposit
  \/ Withdraw
  \/ ReadBalance

Spec == Init /\ [][Next]_vars

(* ---- donate on a host that does not serialize writes to a ledger key ---- *)
(* The two halves of update_ledger_record: the read of the current count and  *)
(* the store of that count + 1.                                               *)
ledger_read(s, k) ==
  IF ~has_key(s, LEDGER) THEN [ok |-> FALSE, cur |-> 0]
  ELSE LET c == dictionary_get(s, s.named_keys[LEDGER], k)
       IN [ok |-> TRUE, cur |-> IF c.some THEN c.val ELSE 0]

ledger_write(s, k, cur) == dictionary_put(s, s.named_keys[LEDGER], k, cur + 1)

(* The rest of donate after the ledger record (main.rs:57-65). *)
donate_return(s) ==
  IF ~has_key(s, FUNDRAISING_PURSE) THEN Revert(s, MissingFundRaisingPurseURef)
  ELSE Ok(s, -1, into_add(s.named_keys[FUNDRAISING_PURSE]))

(* Calls of identity h that have written their count and not yet returned. *)
Written(h) == Cardinality({p \in Calls : inflight[p].pc = "written" /\ inflight[p].key = KeyAccount(h)})
(* Calls of identity h that are between their start and their return. *)
Running(h) ==
  Cardinality({p \in Calls : inflight[p].pc \in {"read", "written"} /\ inflight[p].key = KeyAccount(h)})

(* Call p starts: the key variant is matched, the ledger is looked up and the *)
(* current count is read (main.rs:51-53).                                     *)
DonateRead ==
  \E p \in Calls, key \in Keys :
    /\ inflight[p].pc = "idle"
    /\ key.tag = "Account" => n_donated[key.hash] + Running(key.hash) < MaxDonations
    /\ LET rd == ledger_read(St, to_string(key.hash))
           fail == IF key.tag # "Account" THEN Revert(St, InvalidKeyVariant)
                   ELSE Revert(St, MissingLedgerSeedURef)
       IN IF key.tag = "Account" /\ rd.ok
          THEN /\ inflight' = [inflight EXCEPT ![p] = [pc |-> "read", key |-> key, cur |-> rd.cur]]
               /\ UNCHANGED ret
          ELSE /\ ret' = Result(ENTRY_POINT_DONATE, key, 0, fail, St)
               /\ UNCHANGED inflight
    /\ UNCHANGED <<named_keys, balances, dictionaries, next_addr,
                   n_donated, deposited, funds_seen, holders, raced>>

(* Call p stores the count it read + 1; the write is stale when the stored    *)
(* count is no longer the one it read.                                        *)
DonateWrite ==
  \E p \in Calls :
    /\ inflight[p].pc = "read"
    /\ LET k == to_string(inflight[p].key.hash)
       IN /\ Store(ledger_write(St, k, inflight[p].cur))
          /\ raced' = (raced \/ ledger_read(St, k).cur # inflight[p].cur)
    /\ inflight' = [inflight EXCEPT ![p].pc = "written"]
    /\ UNCHANGED <<ret, n_donated, deposited, funds_seen, holders>>

(* Call p looks up the purse and returns the add-only URef (main.rs:57-65).   *)
DonateReturn ==
  \E p \in Calls :
    /\ inflight[p].pc = "written"
    /\ LET r == donate_return(St)
       IN /\ ret' = Result(ENTRY_POINT_DONATE, inflight[p].key, 0, r, St)
          /\ n_donated' = IF r.ok THEN [n_donated EXCEPT ![inflight[p].key.hash] = @ + 1]
                          ELSE n_donated
          /\ holders' = IF r.ok THEN holders \cup {r.cap} ELSE holders
          /\ inflight' = [inflight EXCEPT ![p].pc = IF r.ok THEN "returned" ELSE "failed"]
    /\ UNCHANGED <<named_keys, balances, dictionaries, next_addr, deposited, funds_seen, raced>>

NextRace ==
  \/ CallInit
  \/ CallDonate
  \/ CallGetDonationCount
  \/ DonateRead
  \/ DonateWrite
  \/ DonateReturn

SpecRace == Init /\ [][NextRace]_vars

(* ---- views of the state used by the properties ---- *)
Initialized == has_key(St, FUNDRAISING_PURSE) /\ has_key(St, LEDGER)
Uninitialized == ~has_key(St, FUNDRAISING_PURSE) /\ ~has_key(St, LEDGER)

TypeOK ==
  /\ DOMAIN named_keys \subseteq {FUNDRAISING_PURSE, LEDGER}
  /\ \A a \in DOMAIN balances : balances[a] \in 0..MaxBalance
  /\ \A h \in AccountHashes : n_donated[h] \in 0..MaxDonations
  /\ next_addr \in 1..(MaxAddr + 2)

QueryOps == {ENTRY_POINT_DONATE, ENTRY_POINT_GET_DONATION_COUNT, ENTRY_POINT_GET_FUNDS_RAISED}
EntryPointNames == QueryOps \cup {ENTRY_POINT_INIT}
MissingResourceErrors == {MissingFundRaisingPurseURef, MissingLedgerSeedURef}

(* ---- C1 ---- *)
(* C1: once initialized, for every account identity i, get_donation_count(i)  *)
(* succeeds and returns exactly the number of donate(i) calls that succeeded  *)
(* since init, whatever else ran in between; and a get_donation_count call    *)
(* that was made returned that number.                                        *)
C1_CountIsNumberOfDonations ==
  /\ Initialized =>
       \A h \in AccountHashes :
         LET r == get_donation_count(St, KeyAccount(h))
         IN r.ok /\ r.num = n_donated[h]
  /\ (ret.op = ENTRY_POINT_GET_DONATION_COUNT /\ ret.ok) => ret.num = n_donated[ret.key.hash]

(* A count of 2 was returned for one donor while the other donor has donated  *)
(* once and funds were deposited in between.                                  *)
C1_Witness ==
  /\ ret.op = ENTRY_POINT_GET_DONATION_COUNT /\ ret.ok /\ ret.num = 2
  /\ \E h \in AccountHashes : h # ret.key.hash /\ n_donated[h] = 1
  /\ deposited > 0

(* ---- C2 ---- *)
(* C2: in the Initialized state, get_donation_count of an account identity    *)
(* that never donated succeeds with 0, also after other identities donated.   *)
C2_NeverDonatedIsZero ==
  /\ Initialized =>
       \A h \in AccountHashes :
         n_donated[h] = 0 =>
           LET r == get_donation_count(St, KeyAccount(h)) IN r.ok /\ r.num = 0
  /\ (/\ Initialized
      /\ ret.op = ENTRY_POINT_GET_DONATION_COUNT
      /\ ret.key.tag = "Account"
      /\ n_donated[ret.key.hash] = 0) => (ret.ok /\ ret.num = 0)

(* The query of a never-donated identity returned 0 while another identity    *)
(* has donated and the purse holds funds.                                     *)
C2_Witness ==
  /\ Initialized
  /\ ret.op = ENTRY_POINT_GET_DONATION_COUNT /\ ret.ok /\ ret.num = 0
  /\ n_donated[ret.key.hash] = 0
  /\ \E h \in AccountHashes : n_donated[h] > 0
  /\ deposited > 0

(* ---- C3 ---- *)
(* C3: a donate call with a key that is not Key::Account fails with           *)
(* InvalidKeyVariant, returns no capability and changes no ledger entry.      *)
C3_InvalidKeyDonate ==
  [][(ret'.op = ENTRY_POINT_DONATE /\ ret'.key.tag # "Account") =>
       /\ ~ret'.ok
       /\ ret'.err = InvalidKeyVariant
       /\ ret'.cap = NoURef
       /\ holders' = holders
       /\ dictionaries' = dictionaries
       /\ n_donated' = n_donated]_vars

(* donate was refused for Key::Hash(h) while the account with the same bytes  *)
(* has a ledger entry.                                                        *)
C3_Witness ==
  /\ ret.op = ENTRY_POINT_DONATE /\ ret.key.tag = "Hash"
  /\ ret.err = InvalidKeyVariant
  /\ n_donated[ret.key.hash] > 0

(* ---- C4 ---- *)
(* C4 as stated: in the Uninitialized state every call of donate,             *)
(* get_donation_count or get_funds_raised, for every input, fails with a      *)
(* missing-resource error.                                                    *)
C4_Original ==
  (Uninitialized /\ ret.op \in QueryOps) =>
    (~ret.ok /\ ret.err \in MissingResourceErrors)

(* C4 amended: in the Uninitialized state none of the three calls succeeds;   *)
(* get_funds_raised and the two keyed calls with an account key fail with a   *)
(* missing-resource error, the two keyed calls with another key variant fail  *)
(* with InvalidKeyVariant.                                                    *)
C4_UninitializedCallsFail ==
  /\ Uninitialized =>
       /\ LET r == get_funds_raised(St) IN ~r.ok /\ r.err \in MissingResourceErrors
       /\ \A key \in Keys :
            LET d == donate(St, key)
                c == get_donation_count(St, key)
            IN /\ ~d.ok /\ ~c.ok
               /\ key.tag = "Account" =>
                    d.err \in MissingResourceErrors /\ c.err \in MissingResourceErrors
               /\ key.tag # "Account" =>
                    d.err = InvalidKeyVariant /\ c.err = InvalidKeyVariant
  /\ (Uninitialized /\ ret.op \in QueryOps) =>
       /\ ~ret.ok
       /\ ret.err = IF ret.op # ENTRY_POINT_GET_FUNDS_RAISED /\ ret.key.tag # "Account"
                    THEN InvalidKeyVariant
                    ELSE IF ret.op = ENTRY_POINT_GET_FUNDS_RAISED
                         THEN MissingFundRaisingPurseURef
                         ELSE MissingLedgerSeedURef

(* get_funds_raised was called before init and failed for the missing purse.  *)
C4_Witness ==
  /\ Uninitialized
  /\ ret.op = ENTRY_POINT_GET_FUNDS_RAISED
  /\ ~ret.ok /\ ret.err = MissingFundRaisingPurseURef

(* ---- C5 ---- *)
(* C5: every successful get_funds_raised returns a value that is >= 0 and >=  *)
(* every value an earlier successful get_funds_raised returned.               *)
C5_FundsNonDecreasing ==
  [][(ret'.op = ENTRY_POINT_GET_FUNDS_RAISED /\ ret'.ok) =>
       (ret'.num >= 0 /\ \A v \in funds_seen : ret'.num >= v)]_vars

(* Two successful get_funds_raised calls returned different values, the       *)
(* later one (after a deposit) the larger.                                    *)
C5_Witness ==
  /\ ret.op = ENTRY_POINT_GET_FUNDS_RAISED /\ ret.ok
  /\ Cardinality(funds_seen) >= 2
  /\ \A v \in funds_seen : ret.num >= v

(* ---- C6 ---- *)
(* C6: every capability handed out is the ADD-only view of the purse bound    *)
(* under "fundraising_purse": it is addable, neither writeable nor readable,  *)
(* so a deposit through it is accepted and a withdrawal or a balance read     *)
(* through it is rejected; and no operation returns a URef with more than ADD *)
(* access.                                                                    *)
C6_AddOnlyCapability ==
  /\ \A cap \in holders :
       /\ has_key(St, FUNDRAISING_PURSE)
       /\ cap.addr = named_keys[FUNDRAISING_PURSE].addr
       /\ is_addable(cap) /\ ~is_writeable(cap) /\ ~is_readable(cap)
       /\ deposit(St, cap, 1).ok
       /\ \A amt \in 0..MaxBalance : ~withdraw(St, cap, amt).ok
       /\ ~read_balance(St, cap).ok
  /\ ret.cap # NoURef => (ret.op = ENTRY_POINT_DONATE /\ ret.cap.rights = ADD)
  /\ ret.op \in {"withdraw", "read_balance"} => (~ret.ok /\ ret.err = InvalidAccessRights)
  /\ ret.op = "deposit" => ret.ok

(* A holder tried to take funds out of a purse that holds enough, through the *)
(* capability donate returned, and was refused.                               *)
C6_Witness ==
  /\ ret.op = "withdraw" /\ ~ret.ok
  /\ holders # {}
  /\ balances[named_keys[FUNDRAISING_PURSE].addr] >= ret.amt

(* ---- C7 ---- *)
(* C7: an init call made when the purse and the ledger are already bound      *)
(* fails, and the named keys, the purse balances and the dictionaries (every  *)
(* donation count) are as before the call.                                    *)
C7_ReInitFails ==
  [][(Initialized /\ ret'.op = ENTRY_POINT_INIT) =>
       /\ ~ret'.ok
       /\ named_keys' = named_keys
       /\ balances' = balances
       /\ dictionaries' = dictionaries]_vars

(* init was called again after donations and a deposit, and failed.           *)
C7_Witness ==
  /\ ret.op = ENTRY_POINT_INIT /\ ~ret.ok
  /\ Initialized
  /\ deposited > 0
  /\ \E h \in AccountHashes : n_donated[h] > 0

(* ---- C8 ---- *)
(* C8: once initialized, get_funds_raised succeeds and returns exactly the    *)
(* sum of the amounts deposited through capabilities returned by donate; a    *)
(* get_funds_raised call that succeeded returned that sum.                    *)
C8_FundsAreDeposits ==
  /\ Initialized => LET r == get_funds_raised(St) IN r.ok /\ r.num = deposited
  /\ (ret.op = ENTRY_POINT_GET_FUNDS_RAISED /\ ret.ok) => ret.num = deposited

(* get_funds_raised returned the 3 units deposited, after 2 donations in all. *)
C8_Witness ==
  /\ ret.op = ENTRY_POINT_GET_FUNDS_RAISED /\ ret.ok
  /\ ret.num = 3 /\ deposited = 3
  /\ \E h \in AccountHashes : n_donated[h] = 2

(* ---- C9 ---- *)
(* C9 as stated: an init call made after a successful init is not rejected,   *)
(* and right after it get_funds_raised returns 0 and get_donation_count       *)
(* returns 0 for every identity.                                              *)
C9_Original ==
  [][(Initialized /\ ret'.op = ENTRY_POINT_INIT) =>
       /\ ret'.ok
       /\ get_funds_raised(St').num = 0
       /\ \A h \in AccountHashes : get_donation_count(St', KeyAccount(h)).num = 0]_vars

(* C9 amended: an init call made after a successful init is rejected with     *)
(* InvalidArgument (new_dictionary finds "ledger" already bound) and nothing  *)
(* is orphaned: right after it get_funds_raised and get_donation_count, for   *)
(* every identity, succeed with the values they had right before it.          *)
C9_ReInitKeepsQueries ==
  [][(Initialized /\ ret'.op = ENTRY_POINT_INIT) =>
       /\ ret'.err = InvalidArgument
       /\ get_funds_raised(St').ok
       /\ get_funds_raised(St').num = get_funds_raised(St).num
       /\ \A h \in AccountHashes :
            /\ get_donation_count(St', KeyAccount(h)).ok
            /\ get_donation_count(St', KeyAccount(h)).num
                 = get_donation_count(St, KeyAccount(h)).num]_vars

(* init was rejected with InvalidArgument while the purse holds funds and     *)
(* both donors have a count.                                                  *)
C9_Witness ==
  /\ ret.op = ENTRY_POINT_INIT /\ ret.err = InvalidArgument
  /\ get_funds_raised(St).num > 0
  /\ \A h \in AccountHashes : get_donation_count(St, KeyAccount(h)).num > 0

CountOf(h) ==
  IF has_key(St, LEDGER)
  THEN LET c == dictionary_get(St, named_keys[LEDGER], to_string(h))
       IN IF c.some THEN c.val ELSE 0
  ELSE 0

(* The item keys the ledger holds. *)
LedgerEntries == IF has_key(St, LEDGER) THEN DOMAIN dictionaries[named_keys[LEDGER].addr] ELSE {}

(* ---- C11 ---- *)
(* C11: every reachable state has both the purse and the ledger bound or      *)
(* neither; Uninitialized is left only by a successful init, a successful     *)
(* init happens only from Uninitialized (so at most once), Initialized is     *)
(* never left, and donate, get_donation_count and get_funds_raised leave the  *)
(* set of bound names as it is.                                               *)
C11_Lifecycle ==
  /\ [](Uninitialized \/ Initialized)
  /\ [][/\ (Uninitialized /\ Initialized') => (ret'.op = ENTRY_POINT_INIT /\ ret'.ok)
        /\ (ret'.op = ENTRY_POINT_INIT /\ ret'.ok) => (Uninitialized /\ Initialized')
        /\ Initialized => Initialized'
        /\ ret'.op \in QueryOps => DOMAIN named_keys' = DOMAIN named_keys]_vars

(* A second init was attempted after the state became Initialized, and the    *)
(* state is still Initialized with the bindings of the first.                 *)
C11_Witness ==
  /\ Initialized
  /\ ret.op = ENTRY_POINT_INIT /\ ~ret.ok
  /\ named_keys[FUNDRAISING_PURSE].addr = 1 /\ named_keys[LEDGER].addr = 2

(* ---- C12 ---- *)
(* C12: in every step the count of every identity stays or grows, no ledger   *)
(* entry disappears, and the count of i changes only in a successful          *)
(* donate(i) step.                                                            *)
C12_MonotonicCounters ==
  [][/\ \A h \in AccountHashes :
          /\ CountOf(h)' >= CountOf(h)
          /\ CountOf(h)' # CountOf(h) =>
               (ret'.op = ENTRY_POINT_DONATE /\ ret'.ok /\ ret'.key = KeyAccount(h))
     /\ LedgerEntries \subseteq LedgerEntries']_vars

(* A repeated init attempt failed while an identity has a count of 2.         *)
C12_Witness ==
  /\ ret.op = ENTRY_POINT_INIT /\ ~ret.ok
  /\ \E h \in AccountHashes : CountOf(h) = 2 /\ to_string(h) \in LedgerEntries

(* ---- C13 ---- *)
(* The number of capabilities donate(i) has returned: one per successful call. *)
CapabilitiesReturned(h) == n_donated[h]

(* C13: for every identity i the number of capabilities donate(i) returned is *)
(* at most the recorded count of i, and a donate that is about to return a    *)
(* capability returns it with the count already raised in its state.          *)
C13_CountedBeforeCapability ==
  /\ \A h \in AccountHashes : CapabilitiesReturned(h) <= CountOf(h)
  /\ \A h \in AccountHashes :
       LET r == donate(St, KeyAccount(h))
       IN (r.ok /\ r.cap # NoURef) =>
            dictionary_get(r.st, r.st.named_keys[LEDGER], to_string(h)).val = CountOf(h) + 1

(* donate has just returned a capability and the count of the donor is 1.     *)
C13_Witness ==
  /\ ret.op = ENTRY_POINT_DONATE /\ ret.ok /\ ret.cap # NoURef
  /\ CapabilitiesReturned(ret.key.hash) = 1
  /\ CountOf(ret.key.hash) = 1

(* ---- C14 ---- *)
(* C14: a successful donate(i) step raises the count of i by one and leaves   *)
(* the count of every other identity, the purse balances and the named keys   *)
(* unchanged.                                                                 *)
C14_DonateFrame ==
  [][(ret'.op = ENTRY_POINT_DONATE /\ ret'.ok) =>
       /\ \A h \in AccountHashes :
            CountOf(h)' = IF h = ret'.key.hash THEN CountOf(h) + 1 ELSE CountOf(h)
       /\ balances' = balances
       /\ named_keys' = named_keys]_vars

(* An identity has donated while the other has a count too, and the purse is  *)
(* still empty.                                                               *)
C14_Witness ==
  /\ ret.op = ENTRY_POINT_DONATE /\ ret.ok
  /\ CountOf(ret.key.hash) > 0
  /\ \E h \in AccountHashes : h # ret.key.hash /\ CountOf(h) = 2
  /\ balances[named_keys[FUNDRAISING_PURSE].addr] = 0

(* ---- C15 ---- *)
(* C15: a get_donation_count or get_funds_raised step, successful or failed,  *)
(* leaves the named keys, the purse balances and the dictionaries (entries    *)
(* included) unchanged.                                                       *)
C15_QueriesReadOnly ==
  [][ret'.op \in {ENTRY_POINT_GET_DONATION_COUNT, ENTRY_POINT_GET_FUNDS_RAISED} =>
       /\ named_keys' = named_keys
       /\ balances' = balances
       /\ dictionaries' = dictionaries
       /\ LedgerEntries' = LedgerEntries]_vars

(* get_donation_count returned 0 for an identity that has no ledger entry,    *)
(* and there is still no entry for it.                                        *)
C15_Witness ==
  /\ ret.op = ENTRY_POINT_GET_DONATION_COUNT /\ ret.ok /\ ret.num = 0
  /\ to_string(ret.key.hash) \notin LedgerEntries
  /\ LedgerEntries # {}

(* ---- C17 ---- *)
(* C17: in every state donate and get_donation_count with a key that is not   *)
(* Key::Account fail with InvalidKeyVariant; they fail with a missing-resource *)
(* error only for a Key::Account.                                             *)
C17_ValidationFirst ==
  /\ \A key \in Keys :
       LET d == donate(St, key)
           c == get_donation_count(St, key)
       IN /\ key.tag # "Account" =>
               (~d.ok /\ d.err = InvalidKeyVariant /\ ~c.ok /\ c.err = InvalidKeyVariant)
          /\ d.err \in MissingResourceErrors => key.tag = "Account"
          /\ c.err \in MissingResourceErrors => key.tag = "Account"
  /\ (ret.op \in {ENTRY_POINT_DONATE, ENTRY_POINT_GET_DONATION_COUNT} /\ ret.key.tag # "Account")
       => (~ret.ok /\ ret.err = InvalidKeyVariant)
  /\ (ret.op \in {ENTRY_POINT_DONATE, ENTRY_POINT_GET_DONATION_COUNT}
        /\ ret.err \in MissingResourceErrors) => ret.key.tag = "Account"

(* Before init, get_donation_count with a Key::Hash failed with               *)
(* InvalidKeyVariant.                                                         *)
C17_Witness ==
  /\ Uninitialized
  /\ ret.op = ENTRY_POINT_GET_DONATION_COUNT /\ ret.key.tag = "Hash"
  /\ ~ret.ok /\ ret.err = InvalidKeyVariant

(* ---- C16 ---- *)
(* C16: with donate calls whose count read and count write can interleave, a  *)
(* lost update needs a stale write: as long as no call has written over a     *)
(* count other than the one it read (in particular when every donate ran as   *)
(* one atomic step), the count of every identity is the number of donate      *)
(* calls that returned for it plus those that have written and not yet        *)
(* returned; and the two halves of the increment, run back to back, are the   *)
(* atomic donate.                                                             *)
C16_LostUpdateOnlyByRace ==
  /\ ~raced => \A h \in AccountHashes : CountOf(h) = n_donated[h] + Written(h)
  /\ \A h \in AccountHashes :
       LET r == donate(St, KeyAccount(h))
           rd == ledger_read(St, to_string(h))
       IN /\ r.ok = rd.ok
          /\ r.ok => r.st = ledger_write(St, to_string(h), rd.cur)

(* Both concurrent calls were made for the same identity, read the same count *)
(* N = 1, and both returned a capability, while the count is N + 1 = 2 after  *)
(* three successful donations.                                                *)
C16_Witness ==
  /\ \A p \in Calls : inflight[p].pc = "returned"
  /\ inflight["a"].key = inflight["b"].key
  /\ inflight["a"].cur = 1 /\ inflight["b"].cur = 1
  /\ CountOf(inflight["a"].key.hash) = 2
  /\ n_donated[inflight["a"].key.hash] = 3
  /\ holders # {}
  /\ raced

====
